---- MODULE Spec2Model ----
(***************************************************************************)
(* Model of js/lib/pyramid.js (the Pyramid renderer) and of the sample     *)
(* page that drives it.  One Pyramid instance, the document it draws into  *)
(* and the outcome of the last call are the state; every public method is  *)
(* one action.                                                              *)
(*                                                                         *)
(* JavaScript values are records [t, s, n, d]: t is the typeof tag, s the  *)
(* text of a string / the name of a function / the name of a non-finite    *)
(* number, and n/d a number as a fraction in lowest terms.  Doubles are    *)
(* modelled as exact rationals plus NaN and the two infinities: rounding   *)
(* is not modelled, and neither is the sign of zero.                       *)
(***************************************************************************)
EXTENDS Integers, Sequences, FiniteSets, TLC

VARIABLES self, svgs, call, status, log, args, nRender, nSet

vars == <<self, svgs, call, status, log, args, nRender, nSet>>

\* ------------------------------------------------------------------ bounds
\* renders per run, setter calls per run, longest dataset
MaxRenders == 2
MaxSetterCalls == 2
MaxLen == 3

\* ------------------------------------------------------------ JS values
Undef == [t |-> "undefined", s |-> "", n |-> 0, d |-> 1]
Null == [t |-> "null", s |-> "", n |-> 0, d |-> 1]
Bool(b) == [t |-> "boolean", s |-> "", n |-> IF b THEN 1 ELSE 0, d |-> 1]
Str(x) == [t |-> "string", s |-> x, n |-> 0, d |-> 1]
\* the decimal text of k, and that text followed by "px"
DigitStr(k) == [t |-> "string", s |-> "<digits>", n |-> k, d |-> 1]
PxStr(k) == [t |-> "string", s |-> "<digits>px", n |-> k, d |-> 1]
Fn(name) == [t |-> "function", s |-> name, n |-> 0, d |-> 1]
NaN == [t |-> "number", s |-> "NaN", n |-> 0, d |-> 1]
PosInf == [t |-> "number", s |-> "Infinity", n |-> 1, d |-> 1]
NegInf == [t |-> "number", s |-> "-Infinity", n |-> -1, d |-> 1]

Abs(x) == IF x < 0 THEN -x ELSE x
Sign(x) == IF x < 0 THEN -1 ELSE IF x > 0 THEN 1 ELSE 0

RECURSIVE Gcd(_, _)
Gcd(a, b) == IF b = 0 THEN a ELSE Gcd(b, a % b)

\* the finite number p/q (q # 0) in lowest terms with a positive denominator
Num(p, q) ==
    LET g == Gcd(Abs(p), Abs(q))
        sg == IF q < 0 THEN -1 ELSE 1
    IN  [t |-> "number", s |-> "", n |-> (sg * p) \div g, d |-> Abs(q) \div g]

NumOf(k) == Num(k, 1)

IsNaN(v) == v.t = "number" /\ v.s = "NaN"
IsInf(v) == v.t = "number" /\ v.s \in {"Infinity", "-Infinity"}
IsFinite(v) == v.t = "number" /\ v.s = ""
InfOf(sg) == IF sg < 0 THEN NegInf ELSE PosInf

\* ToBoolean: undefined, null, false, 0, NaN and "" are falsy
ToBoolean(v) ==
    CASE v.t \in {"undefined", "null"} -> FALSE
      [] v.t = "boolean" -> v.n = 1
      [] v.t = "number" -> ~IsNaN(v) /\ (IsInf(v) \/ v.n # 0)
      [] v.t = "string" -> v.s # ""
      [] OTHER -> TRUE

\* ToNumber, as the - * / operators apply it to their operands
ToNumber(v) ==
    CASE v.t = "number" -> v
      [] v.t = "undefined" -> NaN
      [] v.t = "null" -> NumOf(0)
      [] v.t = "boolean" -> NumOf(v.n)
      [] v.t = "string" /\ v.s = "" -> NumOf(0)
      [] v.t = "string" /\ v.s = "<digits>" -> NumOf(v.n)
      [] OTHER -> NaN

\* the one element of a singleton set.  An operand or an intermediate
\* result is bound through a singleton set, x \in {e}, so that it is
\* evaluated once where it is computed, as a JavaScript expression is.
Only(S) == CHOOSE x \in S : TRUE

NegNum(a) ==
    IF IsNaN(a) THEN NaN
    ELSE IF IsInf(a) THEN InfOf(-a.n)
    ELSE Num(-a.n, a.d)

AddNum(a, b) ==
    IF IsNaN(a) \/ IsNaN(b) THEN NaN
    ELSE IF IsInf(a) /\ IsInf(b) THEN (IF a.n = b.n THEN a ELSE NaN)
    ELSE IF IsInf(a) THEN a
    ELSE IF IsInf(b) THEN b
    ELSE Num(a.n * b.d + b.n * a.d, a.d * b.d)

MulNum(a, b) ==
    IF IsNaN(a) \/ IsNaN(b) THEN NaN
    ELSE IF IsInf(a) \/ IsInf(b)
         THEN (IF Sign(a.n) * Sign(b.n) = 0 THEN NaN
               ELSE InfOf(Sign(a.n) * Sign(b.n)))
    ELSE Num(a.n * b.n, a.d * b.d)

DivNum(a, b) ==
    IF IsNaN(a) \/ IsNaN(b) THEN NaN
    ELSE IF IsInf(a) THEN (IF IsInf(b) THEN NaN
                           ELSE InfOf(a.n * (IF b.n < 0 THEN -1 ELSE 1)))
    ELSE IF IsInf(b) THEN NumOf(0)
    ELSE IF b.n = 0 THEN (IF a.n = 0 THEN NaN ELSE InfOf(Sign(a.n)))
    ELSE Num(a.n * b.d, a.d * b.n)

GtNum(a, b) ==
    IF IsNaN(a) \/ IsNaN(b) THEN FALSE
    ELSE IF IsInf(a) THEN a.n = 1 /\ ~(IsInf(b) /\ b.n = 1)
    ELSE IF IsInf(b) THEN b.n = -1
    ELSE a.n * b.d > b.n * a.d

\* the operators - (unary and binary), +, * and / on two values; + is used
\* on numbers only
JsNeg(v) == Only({NegNum(ToNumber(a)) : a \in {v}})
JsAdd(v, w) == Only({AddNum(ToNumber(a), ToNumber(b)) : a \in {v}, b \in {w}})
JsSub(v, w) == Only({AddNum(ToNumber(a), NegNum(ToNumber(b))) : a \in {v}, b \in {w}})
JsMul(v, w) == Only({MulNum(ToNumber(a), ToNumber(b)) : a \in {v}, b \in {w}})
JsDiv(v, w) == Only({DivNum(ToNumber(a), ToNumber(b)) : a \in {v}, b \in {w}})

\* a > b on numbers (false when either is NaN); the claims are stated with it
JsGt(v, w) == Only({GtNum(ToNumber(a), ToNumber(b)) : a \in {v}, b \in {w}})

\* ------------------------------------------------- the page and its data
\* generateMoreData of the sample page: five labels, pushed base first and
\* returned reversed, so that the array is in top-down order
Observations ==
    <<"Self-actualization", "Esteem", "Love/Belonging", "Safety", "Physiological">>

Arr(items) == [t |-> "object", s |-> "Array", n |-> 0, d |-> 1, items |-> items]

RECURSIVE Reverse(_)
Reverse(q) == IF q = <<>> THEN <<>> ELSE Append(Reverse(Tail(q)), Head(q))

\* the elements of the page a selector can name, with the computed style
\* window.getComputedStyle reports for each
ComputedStyle ==
    [visualization |-> [height |-> PxStr(400), width |-> PxStr(300)],
     other |-> [height |-> PxStr(100), width |-> PxStr(200)]]

ElementIds == DOMAIN ComputedStyle

\* parentContainer.split("#")[1]
SplitHash1(v) ==
    CASE v.s = "#visualization" -> Str("visualization")
      [] v.s = "#other" -> Str("other")
      [] OTHER -> Undef

\* getPropertyValue(..).split("px")[0]
SplitPx0(v) == IF v.s = "<digits>px" THEN DigitStr(v.n) ELSE v

\* the element document.querySelector finds for a selector string, "" if none
QuerySelector(v) ==
    LET id == SplitHash1(v)
    IN  IF id.t = "string" /\ id.s \in ElementIds THEN id.s ELSE ""

\* querySelector / querySelectorAll raise SyntaxError on these
ValidSelector(v) == v.t = "string" /\ v.s # ""

\* "." + className is a valid class selector unless the name is empty or
\* does not start an identifier
ValidClassSelector(v) ==
    CASE v.t = "string" -> v.s # "" /\ v.s # "<digits>"
      [] v.t = "number" -> IsNaN(v) \/ IsInf(v)
      [] v.t \in {"undefined", "null", "boolean"} -> TRUE
      [] OTHER -> FALSE

\* (autoFit == false): loose equality with false
LooseEqFalse(v) ==
    CASE v.t = "boolean" -> v.n = 0
      [] v.t = "number" -> IsFinite(v) /\ v.n = 0
      [] v.t = "string" -> ToNumber(v) = NumOf(0)
      [] OTHER -> FALSE

\* a || b
JsOr(a, b) == IF ToBoolean(a) THEN a ELSE b

\* ---------------------------------------------------------- the instance
NoObject == [t |-> "none"]

DefaultMargin == 25

Sides == {"top", "bottom", "left", "right"}

\* the methods an instance inherits from Pyramid.prototype
ProtoMethods ==
    {"setColorScale", "setParentContainer", "setClassName", "setRelativeWidth",
     "autoFit", "calcBaseToHeightRatio", "generatePoints", "setMargins",
     "setDimensions", "render"}

\* the properties the constructor assigns on the instance itself
OwnProps ==
    {"data", "baseToHeightRatio", "parentContainer", "dimensions", "className",
     "autoFit", "colorScale"}

\* property lookup p.name finds an own property before an inherited method,
\* so p.name(...) is a call only when no own property has that name
IsMethod(name) == name \in ProtoMethods /\ name \notin OwnProps

\* where the constructor leaves normally
ConstructorReturns(parentContainer) ==
    /\ parentContainer.t = "string"
    /\ QuerySelector(parentContainer) # ""

Pyramid(data, parentContainer, className, autoFit, colorScale) ==
    LET style == ComputedStyle[QuerySelector(parentContainer)]
    IN  [t |-> "object",
         data |-> data,
         baseToHeightRatio |-> Num(3, 4),
         parentContainer |-> JsOr(parentContainer, Null),
         dimensions |->
            [outerHeight |-> SplitPx0(style.height),
             outerWidth |-> SplitPx0(style.width),
             margins |-> [sd \in Sides |-> NumOf(DefaultMargin)],
             innerHeight |-> Undef,
             innerWidth |-> Undef,
             chart |-> [width |-> Undef, height |-> Undef]],
         className |-> JsOr(className, Str("pyramid")),
         autoFit |-> Bool(~LooseEqFalse(autoFit)),
         colorScale |-> JsOr(colorScale, Fn("category20"))]

ConstructorLog(data, parentContainer) ==
    (IF ToBoolean(data) THEN <<>>
     ELSE <<"We have no data to put into the pyramid!">>)
    \o (IF ToBoolean(parentContainer) THEN <<>>
        ELSE <<"A parent element has not been specified!">>)

\* ----------------------------------------------------------- the methods
\* each setter logs when its argument is falsy and then stores the argument
setColorScale(p, colorScale) == [p EXCEPT !.colorScale = colorScale]

setParentContainer(p, parentContainer) ==
    [p EXCEPT !.parentContainer = parentContainer]

setClassName(p, className) == [p EXCEPT !.className = className]

setRelativeWidth(p, ratio) == [p EXCEPT !.baseToHeightRatio = ratio]

SetterLog(v, msg) == IF ToBoolean(v) THEN <<>> ELSE <<msg>>

\* a margins argument: an object literal naming some sides (a side that is
\* not named reads as undefined), or a primitive, whose sides all read as
\* undefined
MarginsObj(top, bottom, left, right) ==
    [t |-> "object", s |-> "Object", n |-> 0, d |-> 1,
     top |-> top, bottom |-> bottom, left |-> left, right |-> right]

SideOf(margins, sd) == IF margins.t = "object" THEN margins[sd] ELSE Undef

\* reading margins.top of undefined or null raises TypeError
setMarginsThrows(margins) == margins.t \in {"undefined", "null"}

\* if (margins.side) this.dimensions.margins.side = margins.side
MergeSide(old, given) == IF ToBoolean(given) THEN given ELSE old

setMargins(p, margins) ==
    [p EXCEPT !.dimensions.margins =
        [sd \in Sides |-> MergeSide(p.dimensions.margins[sd], SideOf(margins, sd))]]

\* setDimensions as it would be if it measured the current target again
setDimensions_Remeasure(p) ==
    LET target == IF p.parentContainer.t = "string"
                  THEN QuerySelector(p.parentContainer) ELSE ""
        oh == IF target = "" THEN p.dimensions.outerHeight
              ELSE SplitPx0(ComputedStyle[target].height)
        ow == IF target = "" THEN p.dimensions.outerWidth
              ELSE SplitPx0(ComputedStyle[target].width)
        ih == JsSub(JsSub(oh, p.dimensions.margins["top"]), p.dimensions.margins["bottom"])
        iw == JsSub(JsSub(ow, p.dimensions.margins["left"]), p.dimensions.margins["right"])
    IN  [p EXCEPT !.dimensions.outerHeight = oh,
                  !.dimensions.outerWidth = ow,
                  !.dimensions.innerHeight = ih,
                  !.dimensions.innerWidth = iw,
                  !.dimensions.chart = [width |-> iw, height |-> ih]]

setDimensions(p) ==
    LET dm == p.dimensions
        ih == JsSub(JsSub(dm.outerHeight, dm.margins["top"]), dm.margins["bottom"])
        iw == JsSub(JsSub(dm.outerWidth, dm.margins["left"]), dm.margins["right"])
    IN  [p EXCEPT !.dimensions.innerHeight = ih,
                  !.dimensions.innerWidth = iw,
                  !.dimensions.chart = [width |-> iw, height |-> ih]]

\* calcBaseToHeightRatio as it would be with the full width for the half
calcBaseToHeightRatio_NoHalf(p) ==
    JsDiv(p.dimensions.chart.width, p.dimensions.chart.height)

calcBaseToHeightRatio(p) ==
    JsDiv(JsDiv(p.dimensions.chart.width, NumOf(2)), p.dimensions.chart.height)

\* the three vertices of the slice with index arrayIndex (0 = apex slice)
generatePoints(p, arrayIndex, center, sliceHeight) ==
    LET half == JsMul(JsMul(NumOf(arrayIndex + 1), p.baseToHeightRatio), sliceHeight)
        y == JsMul(sliceHeight, NumOf(arrayIndex + 1))
    IN  <<[x |-> center, y |-> NumOf(0)],
          [x |-> JsSub(center, half), y |-> y],
          [x |-> JsAdd(center, half), y |-> y]>>

\* ---------------------------------------------------------------- render
\* the value colorScale(d) of a colour scale for a label
Color(scale, label) == [scale |-> scale.s, of |-> label]
NoFill == [scale |-> "", of |-> ""]

\* this.data.reverse() reverses the array the instance refers to, in place
ReverseData(p) == [p EXCEPT !.data = Arr(Reverse(p.data.items))]

\* d3.selectAll("." + className).empty() only reports whether the selection
\* is empty: the document after it is the document before it
EmptyCall(document, className) == document

\* the element d3.select(parentContainer) holds: "" when the selector finds
\* nothing or the argument is a falsy non-string
SelectTarget(parentContainer) ==
    IF parentContainer.t = "string" THEN QuerySelector(parentContainer) ELSE ""

SelectThrows(parentContainer) ==
    parentContainer.t = "string" /\ ~ValidSelector(parentContainer)

\* StackIndex as it would be if render passed the datum's own index
StackIndex_Forward(len, i) == i

\* the stack index render passes to generatePoints for the i-th datum of
\* reversed (i counted from 0)
StackIndex(len, i) == len - i - 1

\* the y of the i-th label (i counted from 0)
LabelY(len, i, sliceHeight) ==
    JsSub(JsMul(NumOf(len - i), sliceHeight), JsDiv(sliceHeight, Num(5, 2)))

\* the ratio render installs before it generates points
ApplyAutoFit(p) ==
    IF ToBoolean(p.autoFit) THEN setRelativeWidth(p, calcBaseToHeightRatio(p)) ELSE p

AutoFitLog(p) ==
    IF ToBoolean(p.autoFit)
    THEN SetterLog(calcBaseToHeightRatio(p), "No relative width has been specified!")
    ELSE <<>>

\* the svg element one render appends to element target
DrawSvg(p, target, center, sliceHeight) ==
    LET reversed == p.data.items
        len == Len(reversed)
        fillThrows == p.colorScale.t # "function" /\ len > 0
    IN  [parent |-> target,
         class |-> p.className,
         width |-> p.dimensions.outerWidth,
         height |-> p.dimensions.outerHeight,
         g |-> [width |-> p.dimensions.innerWidth,
                height |-> p.dimensions.innerHeight,
                translate |-> <<p.dimensions.margins["left"], p.dimensions.margins["top"]>>,
                class |-> p.className],
         paths |-> [k \in 1..len |->
                      [points |-> generatePoints(p, StackIndex(len, k - 1), center, sliceHeight),
                       class |-> "slice triangle",
                       fill |-> IF fillThrows THEN NoFill ELSE Color(p.colorScale, reversed[k]),
                       datum |-> reversed[k]]],
         texts |-> IF fillThrows THEN <<>>
                   ELSE [k \in 1..len |->
                           [text |-> reversed[k],
                            x |-> center,
                            y |-> LabelY(len, k - 1, sliceHeight),
                            class |-> "pyramid-label"]]]

\* render() from the svg element on, for the instance p1 that
\* this.data.reverse() and setDimensions() left
renderFrom(p1, document) ==
    Only({
        IF ~ValidClassSelector(p1.className) \/ SelectThrows(p1.parentContainer)
        THEN [self |-> p1, svgs |-> EmptyCall(document, p1.className),
              status |-> "SyntaxError", log |-> <<>>]
        ELSE IF SelectTarget(p1.parentContainer) = ""
        THEN [self |-> p2, svgs |-> EmptyCall(document, p1.className),
              status |-> "returned", log |-> AutoFitLog(p1)]
        ELSE [self |-> p2,
              svgs |-> Append(EmptyCall(document, p1.className),
                              DrawSvg(p2, SelectTarget(p1.parentContainer), center, sliceHeight)),
              status |-> IF p2.colorScale.t # "function" /\ Len(p2.data.items) > 0
                         THEN "TypeError" ELSE "returned",
              log |-> AutoFitLog(p1)]
        : p2 \in {ApplyAutoFit(p1)},
          center \in {JsDiv(p1.dimensions.chart.width, NumOf(2))},
          sliceHeight \in {JsDiv(p1.dimensions.chart.height, NumOf(Len(p1.data.items)))}})

\* the whole of render(): the instance and the document it leaves, how it
\* ends and what it logs
render(p, document) ==
    IF p.data.t # "object"
    THEN [self |-> p, svgs |-> document, status |-> "TypeError", log |-> <<>>]
    ELSE Only({renderFrom(p1, document) : p1 \in {setDimensions(ReverseData(p))}})

\* the body of Pyramid.prototype.autoFit, were it ever reached
autoFit(p, flag) == [p EXCEPT !.autoFit = flag]

\* ------------------------------------------------------- inputs of a run
Falsy == {Undef, Null, NumOf(0), Str(""), Bool(FALSE)}

DataArgs == {Undef} \cup {Arr(SubSeq(Observations, 1, k)) : k \in 0..MaxLen}
ContainerArgs == {Undef, Str(""), Str("#visualization"), Str("#other")}
ClassArgs == {Undef}
AutoFitArgs == {Undef, Bool(FALSE)}
ColorArgs == {Undef}

ColorScaleInputs == {Undef, Fn("category10")}
ParentInputs == {Undef, Str("#other")}
ClassInputs == {Str(""), Str("pyramid-2")}
RatioInputs == {Undef, NumOf(0), NumOf(1)}
AutoFitInputs == {Bool(FALSE)}
MarginInputs ==
    {Undef,
     NumOf(0),
     MarginsObj(Undef, Undef, NumOf(40), Undef),
     MarginsObj(Undef, Undef, NumOf(0), Undef),
     MarginsObj(NumOf(375), NumOf(0), Undef, Undef)}

NoArgs ==
    [data |-> Undef, parentContainer |-> Undef, className |-> Undef,
     autoFit |-> Undef, colorScale |-> Undef]

\* ---------------------------------------------------------------- actions
Init ==
    /\ self = NoObject
    /\ svgs = <<>>
    /\ call = [op |-> "none", arg |-> Undef]
    /\ status = "returned"
    /\ log = <<>>
    /\ args = NoArgs
    /\ nRender = 0
    /\ nSet = 0

\* var pyramid = new Pyramid(data, parentContainer, className, autoFit, colorScale)
Construct ==
    /\ call.op = "none"
    /\ \E data \in DataArgs, pc \in ContainerArgs, cn \in ClassArgs,
          af \in AutoFitArgs, cs \in ColorArgs :
          /\ args' = [data |-> data, parentContainer |-> pc, className |-> cn,
                      autoFit |-> af, colorScale |-> cs]
          /\ log' = ConstructorLog(data, pc)
          /\ IF ConstructorReturns(pc)
             THEN self' = Pyramid(data, pc, cn, af, cs) /\ status' = "returned"
             ELSE self' = NoObject /\ status' = "TypeError"
    /\ call' = [op |-> "new", arg |-> Undef]
    /\ UNCHANGED <<svgs, nRender, nSet>>

CanSet == self.t = "object" /\ nSet < MaxSetterCalls

SetColorScale ==
    /\ CanSet
    /\ \E v \in ColorScaleInputs :
          /\ self' = setColorScale(self, v)
          /\ log' = SetterLog(v, "No color scale has been specified!")
          /\ call' = [op |-> "setColorScale", arg |-> v]
    /\ status' = "returned"
    /\ nSet' = nSet + 1
    /\ UNCHANGED <<svgs, args, nRender>>

SetParentContainer ==
    /\ CanSet
    /\ \E v \in ParentInputs :
          /\ self' = setParentContainer(self, v)
          /\ log' = SetterLog(v, "No parent container element has been specified!")
          /\ call' = [op |-> "setParentContainer", arg |-> v]
    /\ status' = "returned"
    /\ nSet' = nSet + 1
    /\ UNCHANGED <<svgs, args, nRender>>

SetClassName ==
    /\ CanSet
    /\ \E v \in ClassInputs :
          /\ self' = setClassName(self, v)
          /\ log' = SetterLog(v, "No class name has been specified!")
          /\ call' = [op |-> "setClassName", arg |-> v]
    /\ status' = "returned"
    /\ nSet' = nSet + 1
    /\ UNCHANGED <<svgs, args, nRender>>

SetRelativeWidth ==
    /\ CanSet
    /\ \E v \in RatioInputs :
          /\ self' = setRelativeWidth(self, v)
          /\ log' = SetterLog(v, "No relative width has been specified!")
          /\ call' = [op |-> "setRelativeWidth", arg |-> v]
    /\ status' = "returned"
    /\ nSet' = nSet + 1
    /\ UNCHANGED <<svgs, args, nRender>>

SetMargins ==
    /\ CanSet
    /\ \E m \in MarginInputs :
          /\ log' = SetterLog(m, "No margins have been specified!")
          /\ call' = [op |-> "setMargins", arg |-> m]
          /\ IF setMarginsThrows(m)
             THEN self' = self /\ status' = "TypeError"
             ELSE self' = setMargins(self, m) /\ status' = "returned"
    /\ nSet' = nSet + 1
    /\ UNCHANGED <<svgs, args, nRender>>

\* pyramid.autoFit(flag): the constructor gave the instance an own property
\* named autoFit, which hides the method of the prototype
AutoFit ==
    /\ CanSet
    /\ \E v \in AutoFitInputs :
          /\ call' = [op |-> "autoFit", arg |-> v]
          /\ IF IsMethod("autoFit")
             THEN self' = autoFit(self, v) /\ status' = "returned"
             ELSE self' = self /\ status' = "TypeError"
    /\ log' = <<>>
    /\ nSet' = nSet + 1
    /\ UNCHANGED <<svgs, args, nRender>>

Render ==
    /\ self.t = "object"
    /\ nRender < MaxRenders
    /\ \E r \in {render(self, svgs)} :
          /\ self' = r.self
          /\ svgs' = r.svgs
          /\ status' = r.status
          /\ log' = r.log
    /\ call' = [op |-> "render", arg |-> Undef]
    /\ nRender' = nRender + 1
    /\ UNCHANGED <<args, nSet>>

Next ==
    \/ Construct
    \/ SetColorScale
    \/ SetParentContainer
    \/ SetClassName
    \/ SetRelativeWidth
    \/ SetMargins
    \/ AutoFit
    \/ Render

Spec == Init /\ [][Next]_vars

\* ---------------------------------------------------------------- claims
Setters ==
    {"setColorScale", "setParentContainer", "setClassName", "setRelativeWidth",
     "setMargins"}

\* a step in which render() appended an svg element to the document
RenderDrew == call'.op = "render" /\ Len(svgs') = Len(svgs) + 1

LastSvg(document) == document[Len(document)]

RECURSIVE AllPaths(_)
AllPaths(document) ==
    IF document = <<>> THEN <<>>
    ELSE AllPaths(SubSeq(document, 1, Len(document) - 1)) \o LastSvg(document).paths

RECURSIVE AllTexts(_)
AllTexts(document) ==
    IF document = <<>> THEN <<>>
    ELSE AllTexts(SubSeq(document, 1, Len(document) - 1)) \o LastSvg(document).texts

\* C1: after any render() the array the instance holds (the caller's array)
\* is in the order it had when it was passed to the constructor.
C1_DataOrderPreserved ==
    (self.t = "object" /\ self.data.t = "object")
        => self.data.items = args.data.items

\* C2: a render() that directly follows a render() leaves the document with
\* the same triangles and the same labels: nothing accumulates.
C2_RenderIdempotent ==
    [][(call.op = "render" /\ call'.op = "render"
            /\ status = "returned" /\ status' = "returned")
        => (AllPaths(svgs') = AllPaths(svgs) /\ AllTexts(svgs') = AllTexts(svgs))]_vars

\* C3: in every render() the item at position k of the dataset as supplied is
\* drawn as the slice with stack index k: its triangle has its base at
\* y = (k+1) * sliceHeight and its label sits at (k+1) * sliceHeight -
\* sliceHeight / 2.5.
C3_ItemKIsSliceK ==
    [][RenderDrew =>
        LET svg == LastSvg(svgs')
            orig == args.data.items
            len == Len(orig)
            sh == JsDiv(self'.dimensions.chart.height, NumOf(len))
        IN  \A k \in 1..len :
              \E j \in 1..Len(svg.paths) :
                 /\ svg.paths[j].datum = orig[k]
                 /\ svg.paths[j].points[2].y = JsMul(NumOf(k), sh)
                 /\ svg.texts # <<>> =>
                       /\ svg.texts[j].text = orig[k]
                       /\ svg.texts[j].y = JsSub(JsMul(NumOf(k), sh), JsDiv(sh, Num(5, 2)))]_vars

\* C4: a setter called with a falsy argument logs an error and changes no
\* field of the renderer.
C4_FalsySetterIsNoOp ==
    [][(call'.op \in Setters /\ ~ToBoolean(call'.arg))
        => (self' = self /\ log' # <<>>)]_vars

\* C5: setMargins(m) sets every side m provides, 0 included, to the value
\* provided, keeps every side m does not provide, and changes nothing else.
C5_MarginsMerge ==
    [][(call'.op = "setMargins" /\ call'.arg.t = "object")
        => /\ \A sd \in Sides :
                self'.dimensions.margins[sd] =
                    IF call'.arg[sd].t = "undefined"
                    THEN self.dimensions.margins[sd] ELSE call'.arg[sd]
           /\ self' = [self EXCEPT !.dimensions.margins = self'.dimensions.margins]]_vars

\* C6: the auto-fit setter called with flag f completes normally and leaves
\* the instance's auto-fit flag equal to f.
C6_AutoFitSetterSets ==
    [][call'.op = "autoFit"
        => (status' = "returned" /\ self'.autoFit = call'.arg)]_vars

\* C8: constructing with missing data or a missing container selector, and
\* calling a setter with a missing or falsy argument, logs a diagnostic and
\* returns normally: it never ends in a thrown exception.
C8_InvalidInputNeverThrows ==
    (\/ call.op = "new" /\ (~ToBoolean(args.data) \/ ~ToBoolean(args.parentContainer))
     \/ call.op \in Setters /\ ~ToBoolean(call.arg))
        => (status = "returned" /\ log # <<>>)

\* the chart size of a render: outer size minus the margins on both sides
ChartWidthOf(p) ==
    JsSub(JsSub(p.dimensions.outerWidth, p.dimensions.margins["left"]),
          p.dimensions.margins["right"])

ChartHeightOf(p) ==
    JsSub(JsSub(p.dimensions.outerHeight, p.dimensions.margins["top"]),
          p.dimensions.margins["bottom"])

\* C7: with auto-fit on, a render() of a non-empty dataset with chart
\* height > 0 generates its points with ratio (chartWidth / 2) / chartHeight
\* taken from the margins current at that render, whatever setRelativeWidth
\* set before; the widest slice (base at y = chartHeight) has bottom-left
\* x = 0 and bottom-right x = chartWidth.
C7_AutoFitFillsWidth ==
    [][(RenderDrew /\ ToBoolean(self.autoFit) /\ Len(self.data.items) >= 1
            /\ JsGt(ChartHeightOf(self), NumOf(0)))
        => LET w == ChartWidthOf(self)
               h == ChartHeightOf(self)
               svg == LastSvg(svgs')
           IN  /\ self'.baseToHeightRatio = JsDiv(JsDiv(w, NumOf(2)), h)
               /\ Len(svg.paths) = Len(self.data.items)
               /\ \E j \in 1..Len(svg.paths) :
                     /\ svg.paths[j].points[2] = [x |-> NumOf(0), y |-> h]
                     /\ svg.paths[j].points[3] = [x |-> w, y |-> h]
                     /\ \A i \in 1..Len(svg.paths) :
                           ~JsGt(svg.paths[i].points[2].y, h)]_vars

\* a render with auto-fit on, after setMargins({left: 40}) and a
\* setRelativeWidth, drew three slices whose widest spans 0..235
C7_Witness ==
    /\ call.op = "render"
    /\ nSet = 2
    /\ ToBoolean(self.autoFit)
    /\ self.dimensions.margins["left"] = NumOf(40)
    /\ self.baseToHeightRatio = Num(47, 140)
    /\ Len(svgs) = 1
    /\ Len(svgs[1].paths) = 3
    /\ svgs[1].paths[1].points[2].x = NumOf(0)
    /\ svgs[1].paths[1].points[3].x = NumOf(235)

\* C9: a render() of N >= 1 items with ratio > 0 and slice height > 0 paints
\* the triangles in strictly decreasing stack index: the j-th painted
\* (j = 0..N-1) has apex (center, 0) and base half-width
\* (N-j) * ratio * sliceHeight at y = (N-j) * sliceHeight, so each triangle
\* is painted after every wider one and lies inside it.
C9_WidestPaintedFirst ==
    [][RenderDrew =>
        LET svg == LastSvg(svgs')
            len == Len(self.data.items)
            r == self'.baseToHeightRatio
            center == JsDiv(ChartWidthOf(self), NumOf(2))
            sh == JsDiv(ChartHeightOf(self), NumOf(len))
            half(j) == JsMul(JsMul(NumOf(len - j), r), sh)
        IN  (len >= 1 /\ JsGt(r, NumOf(0)) /\ JsGt(sh, NumOf(0)))
            => /\ Len(svg.paths) = len
               /\ \A j \in 0..(len - 1) :
                     /\ svg.paths[j + 1].points[1] = [x |-> center, y |-> NumOf(0)]
                     /\ svg.paths[j + 1].points[2] =
                           [x |-> JsSub(center, half(j)), y |-> JsMul(NumOf(len - j), sh)]
                     /\ svg.paths[j + 1].points[3] =
                           [x |-> JsAdd(center, half(j)), y |-> JsMul(NumOf(len - j), sh)]
               /\ \A i, j \in 1..len :
                     i < j =>
                        /\ JsGt(svg.paths[i].points[2].y, svg.paths[j].points[2].y)
                        /\ JsGt(svg.paths[j].points[2].x, svg.paths[i].points[2].x)
                        /\ JsGt(svg.paths[i].points[3].x, svg.paths[j].points[3].x)]_vars

\* a second render, with auto-fit off and ratio 1, painted three triangles
\* of half-widths 350, 700/3 and 350/3, the widest first
C9_Witness ==
    /\ call.op = "render"
    /\ nRender = 2
    /\ ~ToBoolean(self.autoFit)
    /\ self.baseToHeightRatio = NumOf(1)
    /\ Len(svgs) = 2
    /\ Len(svgs[2].paths) = 3
    /\ svgs[2].paths[1].points[3].x = JsAdd(NumOf(125), NumOf(350))
    /\ svgs[2].paths[2].points[3].x = JsAdd(NumOf(125), Num(700, 3))
    /\ svgs[2].paths[3].points[3].x = JsAdd(NumOf(125), Num(350, 3))

\* the outer size the constructor measured for the container it was given
MeasuredAtConstruction(sel) ==
    [height |-> DigitStr(ComputedStyle[QuerySelector(sel)].height.n),
     width |-> DigitStr(ComputedStyle[QuerySelector(sel)].width.n)]

\* C10: the outer height and width are those measured at construction from
\* the constructor's container and no operation changes them;
\* setParentContainer changes the stored selector alone; render() recomputes
\* only the inner and chart dimensions, as outer size minus current margins.
C10_OuterMeasuredOnce ==
    [][self'.t = "object" =>
        /\ self'.dimensions.outerHeight = MeasuredAtConstruction(args'.parentContainer).height
        /\ self'.dimensions.outerWidth = MeasuredAtConstruction(args'.parentContainer).width
        /\ call'.op = "setParentContainer" =>
              self' = [self EXCEPT !.parentContainer = call'.arg]
        /\ (call'.op = "render" /\ self.data.t = "object") =>
              /\ self'.dimensions.margins = self.dimensions.margins
              /\ self'.dimensions.innerHeight = ChartHeightOf(self)
              /\ self'.dimensions.innerWidth = ChartWidthOf(self)
              /\ self'.dimensions.chart =
                    [width |-> ChartWidthOf(self), height |-> ChartHeightOf(self)]]_vars

\* a render after setParentContainer("#other") drew into the 200x100
\* element with the 300x400 measured at construction
C10_Witness ==
    /\ call.op = "render"
    /\ args.parentContainer = Str("#visualization")
    /\ self.parentContainer = Str("#other")
    /\ self.dimensions.outerHeight = DigitStr(400)
    /\ self.dimensions.outerWidth = DigitStr(300)
    /\ self.dimensions.innerHeight = NumOf(350)
    /\ Len(svgs) >= 1
    /\ LastSvg(svgs).parent = "other"
    /\ LastSvg(svgs).height = DigitStr(400)

====
